---- MODULE Spec2Model ----
(***************************************************************************)
(* Model of the chart release action (src/src/index.js): module start-up,  *)
(* main() and the functions it calls.  JavaScript strings are sequences of *)
(* one-character strings, so that startsWith, split, join and the          *)
(* template literals compute what the code computes.                       *)
(*                                                                         *)
(* The collaborators the action drives are state of the model: the tags    *)
(* of the repository (git.hasTag / git.createTag), the releases of the     *)
(* platform (octokit request, cr upload), the package output directory     *)
(* .cr-release-packages (cr package) and the chart index (cr index).       *)
(* Every call to a collaborator may fail; a failed call raises.            *)
(***************************************************************************)
EXTENDS Integers, Sequences, FiniteSets, TLC

\* ------------------------------------------------------------------ bounds

MaxChanges == 2
MaxPaths == 2

\* ----------------------------------------------------------------- strings

defaultChartDir == <<"c", "h", "a", "r", "t", "s">>

ManifestName == <<"C", "h", "a", "r", "t", ".", "y", "a", "m", "l">>

StrA == <<"a">>
StrB == <<"b">>
StrA1 == <<"a", "-", "1">>
Ver1 == <<"1">>
Ver2 == <<"2">>
Ver0 == <<"0">>
Ver10 == <<"1", "-", "0">>

\* String.prototype.startsWith
startsWith(s, p) == Len(s) >= Len(p) /\ SubSeq(s, 1, Len(p)) = p

RECURSIVE SplitAcc(_, _, _, _)
SplitAcc(s, sep, cur, acc) ==
    IF s = <<>> THEN Append(acc, cur)
    ELSE IF Head(s) = sep THEN SplitAcc(Tail(s), sep, <<>>, Append(acc, cur))
    ELSE SplitAcc(Tail(s), sep, Append(cur, Head(s)), acc)

\* String.prototype.split with a one-character separator
split(s, sep) == SplitAcc(s, sep, <<>>, <<>>)

\* Array.prototype.join: the elements with sep between them
RECURSIVE join(_, _)
join(segs, sep) ==
    IF segs = <<>> THEN <<>>
    ELSE IF Len(segs) = 1 THEN segs[1]
    ELSE segs[1] \o sep \o join(Tail(segs), sep)

\* a path from its segments
Path(segs) == join(segs, <<"/">>)

\* ------------------------------------------------------------------- state

VARIABLES
    changed,        \* git.getLatestChanges(): the paths of the latest commit
    fs,             \* the workspace: manifest file path -> parsed content
    chart_dir,      \* configuration: the root directory of the charts
    tags,           \* the tags of the repository
    releases,       \* the releases of the platform, by tag
    staged,         \* .cr-release-packages: the packages cr package wrote
    index,          \* the chart index cr index pushed
    work_dir,       \* TRUE iff GITHUB_WORKSPACE is set
    dry_run,        \* configuration: the dry_run input
    pc,             \* the position of the run
    failed,         \* core.setFailed was called in this run
    failedAt,       \* the call that raised in this run, "" if none
    changes,        \* main: const changes
    neededTags,     \* main: const neededTags
    neededBuilds,   \* main: const neededBuilds
    tagAns,         \* the answers git.hasTag gave in this run, in order
    relAns,         \* the outcomes of the release queries of this run, in order
    i,              \* the loop position in createTags / packageCharts
    log,            \* the collaborator calls of this run, in order
    run,            \* 1 in the first run on the commit, 2 in every later run
    tags0,          \* the tags when this run started
    releases0,      \* the releases when this run started
    prevClean,      \* the previous run was not dry, raised nothing, no query failed
    prevTagFailed   \* the previous run was ended by a git.createTag that raised

vars == <<changed, fs, chart_dir, tags, releases, staged, index, work_dir,
          dry_run, pc, failed, failedAt, changes, neededTags, neededBuilds,
          tagAns, relAns, i, log, run, tags0, releases0, prevClean,
                   prevTagFailed>>

world == <<changed, fs, chart_dir>>

\* -------------------------------------------------------------- the inputs

\* a manifest as yaml.load returns it; ok = FALSE: the file does not parse
Manifest(n, v) == [ok |-> TRUE, name |-> n, version |-> v]
Malformed == [ok |-> FALSE, name |-> <<>>, version |-> <<>>]

PathA == Path(<<defaultChartDir, StrA, ManifestName>>)
PathB == Path(<<defaultChartDir, StrB, ManifestName>>)
PathValues == Path(<<defaultChartDir, StrA, <<"v", ".", "y", "a", "m", "l">>>>)
PathSibling == Path(<<defaultChartDir \o <<"2">>, StrA, ManifestName>>)
PathNested == Path(<<defaultChartDir, StrA, <<"C", "h", "a", "r", "t">>, <<".", "y", "a", "m", "l">>>>)
PathSub == Path(<<defaultChartDir, StrA, <<"s", "u", "b">>, ManifestName>>)
PathOutside == Path(<<<<"d", "o", "c", "s">>, StrA, ManifestName>>)
PathReadme == <<"R", "E", "A", "D", "M", "E">>
LibChartDir == <<"l", "i", "b", "/">> \o defaultChartDir
PathLib == Path(<<LibChartDir, StrA, ManifestName>>)

\* the workspaces of the runs: the manifests of charts/a and charts/b
Layouts ==
    { (PathA :> Manifest(StrA, Ver1)) @@ (PathB :> Manifest(StrB, Ver1)),
      (PathA :> Manifest(StrA, Ver1)) @@ (PathB :> Manifest(StrA, Ver2)),
      (PathA :> Manifest(StrA, Ver10)) @@ (PathB :> Manifest(StrA1, Ver0)),
      (PathA :> Manifest(StrA, Ver1)) @@ (PathB :> Malformed) }

RunPaths == {PathA, PathB, PathValues}

\* the inputs of the extractor's specification: the paths of a commit, the
\* manifest each of them would load, and the configured roots
ExtractPaths == {PathA, PathB, PathValues, PathSibling, PathNested, PathSub,
                 PathOutside, PathReadme, PathLib}

ExtractLayout ==
    (PathA :> Manifest(StrA, Ver1)) @@ (PathB :> Manifest(StrB, Ver1))
    @@ (PathSibling :> Manifest(<<"s">>, Ver1))
    @@ (PathNested :> Manifest(<<"n">>, Ver1))
    @@ (PathSub :> Manifest(<<"u">>, Ver1))
    @@ (PathOutside :> Manifest(<<"o">>, Ver1))
    @@ (PathLib :> Manifest(<<"l">>, Ver1))

ExtractRoots == {defaultChartDir, LibChartDir}

SeqsUpTo(S, n) == UNION {[1..k -> S] : k \in 0..n}

\* ------------------------------------------------------ the pure functions

\* `${change.chart}-${change.version}`
VersionTag(change) == change.chart \o <<"-">> \o change.version

\* `${chart_dir}/${change.chart}`, the argument of cr package
packageArg(root, change) == root \o <<"/">> \o change.chart

\* const [_, chart, ...relPath] = path.split('/')
relPathOf(path) ==
    LET parts == split(path, "/")
    IN  IF Len(parts) > 2 THEN SubSeq(parts, 3, Len(parts)) ELSE <<>>

\* the two conditions under which getChangedCharts loads a manifest
isChangedChart(path, root) ==
    /\ startsWith(path, root)
    /\ join(relPathOf(path), <<>>) = ManifestName

\* the changed paths getChangedCharts loads, in order
changedManifests(paths, root) ==
    LET keep(p) == isChangedChart(p, root) IN SelectSeq(paths, keep)

\* loadChart raises: no workspace, no such file, or the yaml does not parse
loadChartFails(files, wd, path) ==
    \/ ~wd
    \/ path \notin DOMAIN files
    \/ ~files[path].ok

loadChart(files, path) == files[path]

\* the value of getChangedCharts when no loadChart raises
getChangedCharts(paths, root, files) ==
    LET ms == changedManifests(paths, root)
    IN  [k \in 1..Len(ms) |->
            [chart |-> loadChart(files, ms[k]).name,
             version |-> loadChart(files, ms[k]).version]]

\* git.hasTag
hasTag(ts, tag) == tag \in ts

\* one await git.hasTag(tag): its answer, or "throw" when the call rejects
hasTagOutcome(ts, tag, err) ==
    IF err THEN "throw" ELSE IF hasTag(ts, tag) THEN "yes" ELSE "no"

\* getNeededTags skipping a record when any tag of its chart exists
getNeededTags_ByChart(chs, ts) ==
    LET absent(c) == \A t \in ts : ~startsWith(t, c.chart \o <<"-">>)
    IN  SelectSeq(chs, absent)

\* getNeededTags with tags.unshift(change) in place of tags.push(change)
getNeededTags_Unshift(chs, ts) ==
    LET absent(c) == ~hasTag(ts, VersionTag(c))
        kept == SelectSeq(chs, absent)
    IN  [k \in 1..Len(kept) |-> kept[Len(kept) + 1 - k]]

\* getNeededTags when no git.hasTag raises
getNeededTags(chs, ts) ==
    LET absent(c) == ~hasTag(ts, VersionTag(c)) IN SelectSeq(chs, absent)

\* the octokit request: it resolves ("found") or rejects
request(rels, tag, err) ==
    IF err THEN "error" ELSE IF tag \in rels THEN "found" ELSE "notfound"

\* releaseExists with its two return statements exchanged
releaseExists_Exchanged(outcome) == outcome # "found"

\* releaseExists catching only the not-found response
releaseExists_OnlyNotFound(outcome) == outcome # "notfound"

\* releaseExists: true iff the request resolved
releaseExists(outcome) == outcome = "found"

\* the positions of chs whose release query said no release exists
RECURSIVE keptFrom(_, _)
keptFrom(outcomes, k) ==
    IF k > Len(outcomes) THEN <<>>
    ELSE IF releaseExists(outcomes[k]) THEN keptFrom(outcomes, k + 1)
    ELSE <<k>> \o keptFrom(outcomes, k + 1)

\* getNeededBuilds asking git.hasTag instead of releaseExists
getNeededBuilds_ByTag(chs, outcomes) == getNeededTags(chs, tags)

\* getNeededBuilds, given the outcome of each record's query
getNeededBuilds(chs, outcomes) ==
    LET kept == keptFrom(outcomes, 1)
    IN  [k \in 1..Len(kept) |-> chs[kept[k]]]

\* the records of the manifests of a workspace
RecordsOf(files) ==
    {[chart |-> files[p].name, version |-> files[p].version] :
        p \in {q \in DOMAIN files : files[q].ok}}

\* the tags of some records of a workspace
TagsOf(files, recs) == {VersionTag(r) : r \in recs \cap RecordsOf(files)}

\* ----------------------------------------------------------------- actions

Call(op, arg) == [op |-> op, arg |-> arg]

\* the state of a process that has not started
Fresh ==
    /\ pc = "start"
    /\ work_dir = TRUE
    /\ dry_run = FALSE
    /\ failed = FALSE
    /\ failedAt = ""
    /\ changes = <<>>
    /\ neededTags = <<>>
    /\ neededBuilds = <<>>
    /\ tagAns = <<>>
    /\ relAns = <<>>
    /\ i = 0
    /\ log = <<>>

Init ==
    /\ changed \in SeqsUpTo(RunPaths, MaxChanges)
    /\ fs \in Layouts
    /\ chart_dir = defaultChartDir
    /\ tags \in SUBSET TagsOf(fs, RecordsOf(fs))
    /\ releases \in SUBSET TagsOf(fs, RecordsOf(fs))
    /\ staged = {}
    /\ index = releases
    /\ run = 1
    /\ tags0 = tags
    /\ releases0 = releases
    /\ prevClean = FALSE
    /\ prevTagFailed = FALSE
    /\ Fresh

\* an error leaves main: main().catch calls core.setFailed
Raise(at) ==
    /\ failed' = TRUE
    /\ failedAt' = at
    /\ pc' = "done"

\* the module's top level: the environment and the inputs are read, and a
\* missing workspace is reported with core.setFailed; main() is called next
Startup ==
    /\ pc = "start"
    /\ \E wd \in BOOLEAN, dr \in BOOLEAN :
        /\ work_dir' = wd
        /\ dry_run' = dr
        /\ failed' = ~wd
    /\ pc' = "fetchTools"
    /\ UNCHANGED <<world, tags, releases, staged, index, failedAt, changes,
                   neededTags, neededBuilds, tagAns, relAns, i, log, run,
                   tags0, releases0, prevClean,
                   prevTagFailed>>

\* await fetchTools()
FetchTools ==
    /\ pc = "fetchTools"
    /\ log' = Append(log, Call("fetchTools", <<>>))
    /\ \/ pc' = "prepare" /\ UNCHANGED <<failed, failedAt>>
       \/ Raise("fetchTools")
    /\ UNCHANGED <<world, tags, releases, staged, index, work_dir, dry_run,
                   changes, neededTags, neededBuilds, tagAns, relAns, i, run,
                   tags0, releases0, prevClean,
                   prevTagFailed>>

\* io.rmRF and io.mkdirP of .cr-release-packages and .cr-index
Prepare ==
    /\ pc = "prepare"
    /\ log' = Append(log, Call("prepare", <<>>))
    /\ \/ /\ staged' = {}
          /\ pc' = "getChangedCharts"
          /\ UNCHANGED <<failed, failedAt>>
       \/ /\ staged' \in {staged, {}}
          /\ Raise("prepare")
    /\ UNCHANGED <<world, tags, releases, index, work_dir, dry_run, changes,
                   neededTags, neededBuilds, tagAns, relAns, i, run, tags0,
                   releases0, prevClean,
                   prevTagFailed>>

\* getChangedCharts catching the error of loadChart and skipping the path
GetChangedCharts_SkipsMalformed ==
    /\ pc = "getChangedCharts"
    /\ log' = Append(log, Call("getLatestChanges", <<>>))
    /\ \/ /\ LET loads(p) == isChangedChart(p, chart_dir)
                                /\ ~loadChartFails(fs, work_dir, p)
                 good == SelectSeq(changed, loads)
             IN  changes' = [k \in 1..Len(good) |->
                                [chart |-> loadChart(fs, good[k]).name,
                                 version |-> loadChart(fs, good[k]).version]]
          /\ pc' = "getNeededTags"
          /\ UNCHANGED <<failed, failedAt>>
       \/ /\ Raise("getLatestChanges")
          /\ UNCHANGED changes
    /\ UNCHANGED <<world, tags, releases, staged, index, work_dir, dry_run,
                   neededTags, neededBuilds, tagAns, relAns, i, run, tags0,
                   releases0, prevClean,
                   prevTagFailed>>

\* const changes = await getChangedCharts()
GetChangedCharts ==
    /\ pc = "getChangedCharts"
    /\ log' = Append(log, Call("getLatestChanges", <<>>))
    /\ \/ /\ \A k \in 1..Len(changedManifests(changed, chart_dir)) :
                ~loadChartFails(fs, work_dir, changedManifests(changed, chart_dir)[k])
          /\ changes' = getChangedCharts(changed, chart_dir, fs)
          /\ pc' = "getNeededTags"
          /\ UNCHANGED <<failed, failedAt>>
       \/ /\ \E k \in 1..Len(changedManifests(changed, chart_dir)) :
                loadChartFails(fs, work_dir, changedManifests(changed, chart_dir)[k])
          /\ Raise("loadChart")
          /\ UNCHANGED changes
       \/ /\ Raise("getLatestChanges")
          /\ UNCHANGED changes
    /\ UNCHANGED <<world, tags, releases, staged, index, work_dir, dry_run,
                   neededTags, neededBuilds, tagAns, relAns, i, run, tags0,
                   releases0, prevClean,
                   prevTagFailed>>

HasTagCalls(n) == [k \in 1..n |-> Call("hasTag", VersionTag(changes[k]))]

\* getNeededTags catching the error of git.hasTag and keeping the record
GetNeededTags_Downgrades ==
    /\ pc = "getNeededTags"
    /\ \E n \in 0..Len(changes) :
        LET out == [k \in 1..Len(changes) |->
                        hasTagOutcome(tags, VersionTag(changes[k]), k = n)]
        IN  /\ tagAns' = out
            /\ neededTags' = getNeededBuilds(changes,
                    [k \in 1..Len(changes) |->
                        IF out[k] = "yes" THEN "found" ELSE "notfound"])
    /\ log' = log \o HasTagCalls(Len(changes))
    /\ pc' = "getNeededBuilds"
    /\ UNCHANGED <<world, tags, releases, staged, index, work_dir, dry_run,
                   failed, failedAt, changes, neededBuilds, relAns, i, run,
                   tags0, releases0, prevClean,
                   prevTagFailed>>

\* const neededTags = await getNeededTags(changes)
GetNeededTags ==
    /\ pc = "getNeededTags"
    /\ \/ /\ neededTags' = getNeededTags(changes, tags)
          /\ tagAns' = [k \in 1..Len(changes) |->
                            hasTagOutcome(tags, VersionTag(changes[k]), FALSE)]
          /\ log' = log \o HasTagCalls(Len(changes))
          /\ pc' = "getNeededBuilds"
          /\ UNCHANGED <<failed, failedAt>>
       \/ \E n \in 1..Len(changes) :
            /\ tagAns' = [k \in 1..n |->
                            hasTagOutcome(tags, VersionTag(changes[k]), k = n)]
            /\ log' = log \o HasTagCalls(n)
            /\ Raise("hasTag")
            /\ UNCHANGED neededTags
    /\ UNCHANGED <<world, tags, releases, staged, index, work_dir, dry_run,
                   changes, neededBuilds, relAns, i, run, tags0, releases0,
                   prevClean,
                   prevTagFailed>>

\* const neededBuilds = await getNeededBuilds(changes)
GetNeededBuilds ==
    /\ pc = "getNeededBuilds"
    /\ \E errs \in [1..Len(changes) -> BOOLEAN] :
        LET outcomes == [k \in 1..Len(changes) |->
                            request(releases, VersionTag(changes[k]), errs[k])]
        IN  /\ relAns' = outcomes
            /\ neededBuilds' = getNeededBuilds(changes, outcomes)
    /\ log' = log \o [k \in 1..Len(changes) |->
                        Call("releaseExists", VersionTag(changes[k]))]
    /\ pc' = "tags"
    /\ UNCHANGED <<world, tags, releases, staged, index, work_dir, dry_run,
                   failed, failedAt, changes, neededTags, tagAns, i, run,
                   tags0, releases0, prevClean,
                   prevTagFailed>>

\* skipIfDryRun without its test of dry_run
skipIfDryRun_Always(dry) == FALSE

\* skipIfDryRun: TRUE iff func is not called
skipIfDryRun(dry) == dry

\* main calling createTags without await: main goes on before any tag exists
TagStep_NoAwait ==
    /\ pc = "tags"
    /\ pc' = "build"
    /\ UNCHANGED <<world, tags, releases, staged, index, work_dir, dry_run,
                   failed, failedAt, changes, neededTags, neededBuilds, tagAns,
                   relAns, i, log, run, tags0, releases0, prevClean,
                   prevTagFailed>>

\* if (neededTags.length) await skipIfDryRun(() => createTags(neededTags))
TagStep ==
    /\ pc = "tags"
    /\ IF neededTags # <<>> /\ ~skipIfDryRun(dry_run)
       THEN pc' = "createTags" /\ i' = 1
       ELSE pc' = "build" /\ UNCHANGED i
    /\ UNCHANGED <<world, tags, releases, staged, index, work_dir, dry_run,
                   failed, failedAt, changes, neededTags, neededBuilds, tagAns,
                   relAns, log, run, tags0, releases0, prevClean,
                   prevTagFailed>>

\* createTags deleting the tags of this run when a git.createTag raises
CreateTag_RollsBack ==
    /\ pc = "createTags"
    /\ i \in 1..Len(neededTags)
    /\ log' = Append(log, Call("createTag", VersionTag(neededTags[i])))
    /\ \/ /\ tags' = tags \cup {VersionTag(neededTags[i])}
          /\ i' = i + 1
          /\ pc' = IF i = Len(neededTags) THEN "build" ELSE "createTags"
          /\ UNCHANGED <<failed, failedAt>>
       \/ /\ tags' = tags0
          /\ Raise("createTag")
          /\ UNCHANGED i
    /\ UNCHANGED <<world, releases, staged, index, work_dir, dry_run, changes,
                   neededTags, neededBuilds, tagAns, relAns, run, tags0,
                   releases0, prevClean, prevTagFailed>>

\* createTags: one pass of its loop, await git.createTag(_tag)
CreateTag ==
    /\ pc = "createTags"
    /\ i \in 1..Len(neededTags)
    /\ log' = Append(log, Call("createTag", VersionTag(neededTags[i])))
    /\ \/ /\ tags' = tags \cup {VersionTag(neededTags[i])}
          /\ i' = i + 1
          /\ pc' = IF i = Len(neededTags) THEN "build" ELSE "createTags"
          /\ UNCHANGED <<failed, failedAt>>
       \/ /\ tags' \in {tags, tags \cup {VersionTag(neededTags[i])}}
          /\ Raise("createTag")
          /\ UNCHANGED i
    /\ UNCHANGED <<world, releases, staged, index, work_dir, dry_run, changes,
                   neededTags, neededBuilds, tagAns, relAns, run, tags0,
                   releases0, prevClean, prevTagFailed>>

\* main without the test of neededBuilds.length
BuildStep_NoLengthTest ==
    /\ pc = "build"
    /\ IF ~skipIfDryRun(dry_run)
       THEN /\ pc' = IF neededBuilds = <<>> THEN "publish" ELSE "package"
            /\ i' = 1
       ELSE pc' = "done" /\ UNCHANGED i
    /\ UNCHANGED <<world, tags, releases, staged, index, work_dir, dry_run,
                   failed, failedAt, changes, neededTags, neededBuilds, tagAns,
                   relAns, log, run, tags0, releases0, prevClean,
                   prevTagFailed>>

\* if (neededBuilds.length) ... else core.info('Nothing to build'); with
\* dry_run the three skipIfDryRun calls return null and main returns
BuildStep ==
    /\ pc = "build"
    /\ IF neededBuilds # <<>> /\ ~skipIfDryRun(dry_run)
       THEN pc' = "package" /\ i' = 1
       ELSE pc' = "done" /\ UNCHANGED i
    /\ UNCHANGED <<world, tags, releases, staged, index, work_dir, dry_run,
                   failed, failedAt, changes, neededTags, neededBuilds, tagAns,
                   relAns, log, run, tags0, releases0, prevClean,
                   prevTagFailed>>

\* the manifest cr package reads in the directory it is given
manifestIn(dir) == dir \o <<"/">> \o ManifestName

\* packageCharts catching the error of a cr package call and going on
PackageChart_GoesOn ==
    /\ pc = "package"
    /\ i \in 1..Len(neededBuilds)
    /\ log' = Append(log, Call("package", packageArg(chart_dir, neededBuilds[i])))
    /\ failed' = TRUE
    /\ failedAt' = "package"
    /\ i' = i + 1
    /\ pc' = IF i = Len(neededBuilds) THEN "publish" ELSE "package"
    /\ UNCHANGED <<world, tags, releases, staged, index, work_dir, dry_run,
                   changes, neededTags, neededBuilds, tagAns, relAns, run,
                   tags0, releases0, prevClean,
                   prevTagFailed>>

\* packageCharts leaving its loop one item early
PackageChart_StopsEarly ==
    /\ pc = "package"
    /\ i \in 1..Len(neededBuilds)
    /\ LET dir == packageArg(chart_dir, neededBuilds[i])
       IN  /\ log' = Append(log, Call("package", dir))
           /\ \/ /\ ~loadChartFails(fs, TRUE, manifestIn(dir))
                 /\ staged' = staged \cup
                        {VersionTag([chart |-> fs[manifestIn(dir)].name,
                                     version |-> fs[manifestIn(dir)].version])}
                 /\ i' = i + 1
                 /\ pc' = IF i >= Len(neededBuilds) - 1 THEN "publish" ELSE "package"
                 /\ UNCHANGED <<failed, failedAt>>
              \/ /\ Raise("package")
                 /\ UNCHANGED <<staged, i>>
    /\ UNCHANGED <<world, tags, releases, index, work_dir, dry_run, changes,
                   neededTags, neededBuilds, tagAns, relAns, run, tags0,
                   releases0, prevClean,
                   prevTagFailed>>

\* packageCharts: one pass of its loop, cr package `${chart_dir}/${change.chart}`
PackageChart ==
    /\ pc = "package"
    /\ i \in 1..Len(neededBuilds)
    /\ LET dir == packageArg(chart_dir, neededBuilds[i])
       IN  /\ log' = Append(log, Call("package", dir))
           /\ \/ /\ ~loadChartFails(fs, TRUE, manifestIn(dir))
                 /\ staged' = staged \cup
                        {VersionTag([chart |-> fs[manifestIn(dir)].name,
                                     version |-> fs[manifestIn(dir)].version])}
                 /\ i' = i + 1
                 /\ pc' = IF i = Len(neededBuilds) THEN "publish" ELSE "package"
                 /\ UNCHANGED <<failed, failedAt>>
              \/ /\ Raise("package")
                 /\ UNCHANGED <<staged, i>>
    /\ UNCHANGED <<world, tags, releases, index, work_dir, dry_run, changes,
                   neededTags, neededBuilds, tagAns, relAns, run, tags0,
                   releases0, prevClean,
                   prevTagFailed>>

\* publishCharts: cr upload releases every package of .cr-release-packages
PublishCharts ==
    /\ pc = "publish"
    /\ log' = Append(log, Call("publish", <<>>))
    /\ \/ /\ releases' = releases \cup staged
          /\ pc' = "index"
          /\ UNCHANGED <<failed, failedAt>>
       \/ /\ \E some \in SUBSET staged : releases' = releases \cup some
          /\ Raise("publish")
    /\ UNCHANGED <<world, tags, staged, index, work_dir, dry_run, changes,
                   neededTags, neededBuilds, tagAns, relAns, i, run, tags0,
                   releases0, prevClean,
                   prevTagFailed>>

\* updateIndex: cr index adds the released packages to the index and pushes
UpdateIndex ==
    /\ pc = "index"
    /\ log' = Append(log, Call("index", <<>>))
    /\ \/ /\ index' = index \cup (staged \cap releases)
          /\ pc' = "done"
          /\ UNCHANGED <<failed, failedAt>>
       \/ /\ Raise("index")
          /\ UNCHANGED index
    /\ UNCHANGED <<world, tags, releases, staged, work_dir, dry_run, changes,
                   neededTags, neededBuilds, tagAns, relAns, i, run, tags0,
                   releases0, prevClean,
                   prevTagFailed>>

\* no call of this run raised and no release query failed
NoFailure ==
    /\ failedAt = ""
    /\ \A k \in 1..Len(relAns) : relAns[k] # "error"

\* the run ended with neither main().catch nor the start-up's setFailed
Succeeded == pc = "done" /\ ~failed

\* the workflow runs the action again on the same commit, any number of times
NextRun ==
    /\ pc = "done"
    /\ run' = 2
    /\ tags0' = tags
    /\ releases0' = releases
    /\ prevClean' = (NoFailure /\ ~dry_run /\ work_dir)
    /\ prevTagFailed' = (failedAt = "createTag")
    /\ pc' = "start"
    /\ work_dir' = TRUE
    /\ dry_run' = FALSE
    /\ failed' = FALSE
    /\ failedAt' = ""
    /\ changes' = <<>>
    /\ neededTags' = <<>>
    /\ neededBuilds' = <<>>
    /\ tagAns' = <<>>
    /\ relAns' = <<>>
    /\ i' = 0
    /\ log' = <<>>
    /\ UNCHANGED <<world, tags, releases, staged, index>>

Next ==
    \/ Startup
    \/ FetchTools
    \/ Prepare
    \/ GetChangedCharts
    \/ GetNeededTags
    \/ GetNeededBuilds
    \/ TagStep
    \/ CreateTag
    \/ BuildStep
    \/ PackageChart
    \/ PublishCharts
    \/ UpdateIndex
    \/ NextRun

Spec == Init /\ [][Next]_vars

\* ------------------------------------------------- what the claims speak of

\* the calls of this run to one collaborator, in order
CallsOf(op) == LET is(c) == c.op = op IN SelectSeq(log, is)

ArgsOf(op) == LET calls == CallsOf(op) IN [k \in 1..Len(calls) |-> calls[k].arg]

Mutating == {"createTag", "package", "publish", "index"}

\* no tag was created and no cr command was run in this run
NoMutatingCall == \A k \in 1..Len(log) : log[k].op \notin Mutating

\* both reconcilers of this run have returned
Reconciled ==
    \/ pc \in {"tags", "createTags", "build", "package", "publish", "index"}
    \/ pc = "done" /\ failedAt \in {"", "createTag", "package", "publish", "index"}

\* the tags of a sequence of records
TagsOfSeq(chs) == [k \in 1..Len(chs) |-> VersionTag(chs[k])]

\* C1: when the previous run was not dry and had no failure, and this run is
\* not dry and has no failure, both reconcilers of this run return the empty
\* sequence, this run calls no tag creator and no cr command, and the tags
\* and releases stay what the previous run left.
C1_Idempotence ==
    (run > 1 /\ prevClean /\ Reconciled /\ NoFailure /\ ~dry_run /\ work_dir)
        => /\ neededTags = <<>>
           /\ neededBuilds = <<>>
           /\ NoMutatingCall
           /\ tags = tags0
           /\ releases = releases0

\* ------------------------------------------- the extractor on its own inputs

InitExtract ==
    /\ changed \in SeqsUpTo(ExtractPaths, MaxPaths)
    /\ fs = ExtractLayout
    /\ chart_dir \in ExtractRoots
    /\ tags = {}
    /\ releases = {}
    /\ staged = {}
    /\ index = {}
    /\ run = 1
    /\ tags0 = {}
    /\ releases0 = {}
    /\ prevClean = FALSE
    /\ prevTagFailed = FALSE
    /\ Fresh

\* getChangedCharts applied to the changed paths
Extract ==
    /\ pc = "start"
    /\ \A k \in 1..Len(changedManifests(changed, chart_dir)) :
          ~loadChartFails(fs, work_dir, changedManifests(changed, chart_dir)[k])
    /\ changes' = getChangedCharts(changed, chart_dir, fs)
    /\ pc' = "done"
    /\ UNCHANGED <<world, tags, releases, staged, index, work_dir, dry_run,
                   failed, failedAt, neededTags, neededBuilds, tagAns, relAns,
                   i, log, run, tags0, releases0, prevClean,
                   prevTagFailed>>

SpecExtract == InitExtract /\ [][Extract]_vars

\* ------------------------------------------------------------ claims C2-C10

NoQueryError == \A k \in 1..Len(relAns) : relAns[k] # "error"

\* C2 as stated: in no run, whether or not a release query fails, is the
\* packaging tool run for a record whose VersionTag already had a release
\* when the run started.
C2_NeverPackagedAgain ==
    \A k \in 1..Len(CallsOf("package")) :
        VersionTag(neededBuilds[k]) \notin releases0

\* C2: in a run in which no release query fails, the packaging tool is never
\* run for a record whose VersionTag already had a release when the run
\* started, whatever the earlier runs did.
C2_NeverPackagedAgainWithoutQueryError ==
    NoQueryError =>
        \A k \in 1..Len(CallsOf("package")) :
            VersionTag(neededBuilds[k]) \notin releases0

\* a later run skips a released record and packages another one
C2_Witness ==
    /\ run > 1
    /\ pc = "done"
    /\ NoFailure
    /\ Len(CallsOf("package")) > 0
    /\ \E k \in 1..Len(changes) : VersionTag(changes[k]) \in releases0

\* C3: in a dry run no tag creator, packaging, publish or index call is
\* made and the tags, releases and index stay as they were; once both
\* reconcilers have returned the directories were prepared, nothing raises,
\* and with a workspace configured the run ends successfully.
C3_DryRun ==
    dry_run =>
        /\ NoMutatingCall
        /\ tags = tags0
        /\ releases = releases0
        /\ Reconciled =>
            /\ Len(CallsOf("prepare")) = 1
            /\ failedAt = ""
            /\ pc \in {"tags", "build", "done"}
            /\ work_dir => ~failed

\* a dry run with tags and builds needed that ended successfully
C3_Witness ==
    /\ dry_run
    /\ Succeeded
    /\ neededTags # <<>>
    /\ neededBuilds # <<>>
    /\ staged = {}

\* the records of chs whose VersionTag is not in ts
Lacking(chs, ts) == LET lacks(c) == VersionTag(c) \notin ts IN SelectSeq(chs, lacks)

PackageArgs(chs) == [k \in 1..Len(chs) |-> packageArg(chart_dir, chs[k])]

\* C4: a run that is not dry, raised nothing and had no failed query has
\* called the tag creator for exactly the records that had no tag at the
\* start, and the packaging tool for exactly the records that had no
\* release at the start, each in order; publish and index ran once iff some
\* record was packaged.
C4_Independent ==
    (Succeeded /\ NoFailure /\ ~dry_run) =>
        /\ ArgsOf("createTag") = TagsOfSeq(Lacking(changes, tags0))
        /\ ArgsOf("package") = PackageArgs(Lacking(changes, releases0))
        /\ Len(CallsOf("publish")) = IF Lacking(changes, releases0) = <<>> THEN 0 ELSE 1
        /\ Len(CallsOf("index")) = IF Lacking(changes, releases0) = <<>> THEN 0 ELSE 1

\* every record had its tag and lacked its release: no tag was created and
\* the records were packaged, published and indexed
C4_Witness ==
    /\ Succeeded /\ NoFailure /\ ~dry_run
    /\ changes # <<>>
    /\ \A k \in 1..Len(changes) :
         VersionTag(changes[k]) \in tags0 /\ VersionTag(changes[k]) \notin releases0
    /\ CallsOf("createTag") = <<>>
    /\ Len(CallsOf("package")) = Len(changes)
    /\ Len(CallsOf("publish")) = 1
    /\ Len(CallsOf("index")) = 1

\* getChangedCharts has returned in this run
Extracted ==
    \/ pc \in {"getNeededTags", "getNeededBuilds"}
    \/ Reconciled
    \/ pc = "done" /\ failedAt = "hasTag"

\* C5: when getChangedCharts returns no record, the run creates no tag,
\* runs no cr command, raises nothing, and with a workspace configured it
\* ends successfully.
C5_EmptyChangeSet ==
    (Extracted /\ changes = <<>>) =>
        /\ NoMutatingCall
        /\ failedAt = ""
        /\ pc \in {"getNeededTags", "getNeededBuilds", "tags", "build", "done"}
        /\ work_dir => ~failed

\* a commit that changed paths, none of them a manifest, in a run that is
\* not dry and ended successfully
C5_Witness ==
    /\ Succeeded
    /\ ~dry_run
    /\ changed # <<>>
    /\ changes = <<>>
    /\ Len(CallsOf("getLatestChanges")) = 1

\* C6: after the release reconciler returned, every record was queried,
\* every record whose query failed is in neededBuilds, neededBuilds holds
\* as many records as queries that did not find a release, no error was
\* raised by a query, and a run that is not dry and raised nothing has
\* packaged, published and indexed when a query failed.
C6_OracleErrorDowngrade ==
    Reconciled =>
        /\ Len(relAns) = Len(changes)
        /\ \A k \in 1..Len(relAns) :
             relAns[k] = "error" =>
                \E j \in 1..Len(neededBuilds) : neededBuilds[j] = changes[k]
        /\ Len(neededBuilds) = Cardinality({k \in 1..Len(relAns) : relAns[k] # "found"})
        /\ failedAt # "releaseExists"
        /\ (pc = "done" /\ failedAt = "" /\ ~dry_run /\ ~NoQueryError) =>
             /\ Len(CallsOf("package")) = Len(neededBuilds)
             /\ Len(CallsOf("publish")) = 1
             /\ Len(CallsOf("index")) = 1

\* the query of a released record failed and the run went on to the index
C6_Witness ==
    /\ Succeeded
    /\ ~dry_run
    /\ \E k \in 1..Len(relAns) :
         relAns[k] = "error" /\ VersionTag(changes[k]) \in releases0
    /\ Len(CallsOf("index")) = 1

\* C7: when a packaging call fails the run is over and failed, the call
\* that failed is the last packaging call, each earlier item was packaged
\* once, and publish and index were never run; when publish fails the run
\* is over and failed after one publish call and index was never run; when
\* index fails the run is over and failed after one index call.
C7_SubprocessFailureFatal ==
    /\ failedAt = "package" =>
         /\ pc = "done" /\ failed
         /\ Len(CallsOf("package")) = i
         /\ ArgsOf("package") = SubSeq(PackageArgs(neededBuilds), 1, i)
         /\ CallsOf("publish") = <<>>
         /\ CallsOf("index") = <<>>
    /\ failedAt = "publish" =>
         /\ pc = "done" /\ failed
         /\ ArgsOf("package") = PackageArgs(neededBuilds)
         /\ Len(CallsOf("publish")) = 1
         /\ CallsOf("index") = <<>>
    /\ failedAt = "index" =>
         /\ pc = "done" /\ failed
         /\ Len(CallsOf("publish")) = 1
         /\ Len(CallsOf("index")) = 1

\* the first of two packaging calls failed
C7_Witness ==
    /\ failedAt = "package"
    /\ i = 1
    /\ Len(neededBuilds) = 2
    /\ Len(CallsOf("package")) = 1

\* C8 as stated: without a workspace path the run is failed and no call to
\* any collaborator is made.
C8_ConfigErrorFatal ==
    (pc # "start" /\ ~work_dir) => (failed /\ log = <<>>)

\* the path is <root>/<package>/Chart.yaml
underRootManifest(path, root) ==
    LET ps == split(path, "/")
        rs == split(root, "/")
    IN  /\ Len(ps) = Len(rs) + 2
        /\ SubSeq(ps, 1, Len(rs)) = rs
        /\ ps[Len(ps)] = ManifestName

\* C9 as stated: getChangedCharts returns one record per changed path of
\* the form <root>/<package>/Chart.yaml, in path order, and none for any
\* other path.
C9_ExtractorFilter ==
    pc = "done" =>
        LET want(p) == underRootManifest(p, chart_dir)
            paths == SelectSeq(changed, want)
        IN  changes = [k \in 1..Len(paths) |->
                         [chart |-> fs[paths[k]].name, version |-> fs[paths[k]].version]]

\* the directory that contains a file
dirOf(path) ==
    LET ps == split(path, "/") IN Path(SubSeq(ps, 1, Len(ps) - 1))

\* C10 as stated: the k-th packaging call is given the directory of the
\* manifest the k-th record of neededBuilds was read from.
C10_PackagingTarget ==
    \A k \in 1..Len(CallsOf("package")) :
        ArgsOf("package")[k] =
            dirOf(changedManifests(changed, chart_dir)[keptFrom(relAns, 1)[k]])

\* ---------------------------------------------------------- claims C11-C19

\* the place of a call in the order of main
Rank(op) ==
    CASE op = "fetchTools" -> 0
      [] op = "prepare" -> 0
      [] op = "getLatestChanges" -> 0
      [] op = "hasTag" -> 1
      [] op = "releaseExists" -> 2
      [] op = "createTag" -> 3
      [] op = "package" -> 4
      [] op = "publish" -> 5
      [] op = "index" -> 6

Has(op) == \E k \in 1..Len(log) : log[k].op = op

\* C11: the calls of a run are made one after the other in the order tag
\* queries, release queries, tag creations, packaging, publish, index; a
\* step is begun only after the step before it made all of its calls.
C11_StrictSequencing ==
    /\ LET ranks == [k \in 1..Len(log) |-> Rank(log[k].op)]
       IN  \A k \in 1..(Len(log) - 1) : ranks[k] <= ranks[k + 1]
    /\ Has("releaseExists") => Len(CallsOf("hasTag")) = Len(changes)
    /\ (Has("createTag") \/ Has("package")) =>
          Len(CallsOf("releaseExists")) = Len(changes)
    /\ Has("package") => Len(CallsOf("createTag")) = Len(neededTags)
    /\ Has("publish") => Len(CallsOf("package")) = Len(neededBuilds)
    /\ Has("index") => Len(CallsOf("publish")) = 1

\* a run that queried, tagged, packaged two charts, published and indexed
C11_Witness ==
    /\ Succeeded
    /\ Len(CallsOf("hasTag")) = 2
    /\ Len(CallsOf("releaseExists")) = 2
    /\ Len(CallsOf("createTag")) = 2
    /\ Len(CallsOf("package")) = 2
    /\ Has("publish")
    /\ log[Len(log)].op = "index"

\* C12: a run that is not dry, raised nothing and had n >= 1 needed builds
\* called the packaging tool n times, once per item in order, publish once
\* and index once.
C12_BatchCounts ==
    (pc = "done" /\ failedAt = "" /\ ~dry_run /\ neededBuilds # <<>>) =>
        /\ ArgsOf("package") = PackageArgs(neededBuilds)
        /\ Len(CallsOf("publish")) = 1
        /\ Len(CallsOf("index")) = 1

\* two builds were needed: two packaging calls, one publish, one index
C12_Witness ==
    /\ pc = "done" /\ failedAt = "" /\ ~dry_run
    /\ Len(neededBuilds) = 2
    /\ Len(CallsOf("package")) = 2
    /\ Len(CallsOf("publish")) = 1
    /\ Len(CallsOf("index")) = 1

\* getNeededTags has returned in this run
TagsReconciled == pc = "getNeededBuilds" \/ Reconciled

\* C13: when a createTag call raises, the run is over and failed, the call
\* that raised is the last createTag call, the tags created before it and
\* the tags of the start are still there, and packaging, publish and index
\* were never run; in every run, so in the run after it, neededTags holds
\* exactly the records without a tag at the start of the run, and createTag
\* is called for those only, in order.
C13_PartialTagFailure ==
    /\ failedAt = "createTag" =>
         /\ pc = "done" /\ failed
         /\ Len(CallsOf("createTag")) = i
         /\ \A j \in 1..(i - 1) : VersionTag(neededTags[j]) \in tags
         /\ tags0 \subseteq tags
         /\ ~Has("package") /\ ~Has("publish") /\ ~Has("index")
    /\ TagsReconciled => neededTags = Lacking(changes, tags0)
    /\ ArgsOf("createTag") =
          SubSeq(TagsOfSeq(neededTags), 1, Len(CallsOf("createTag")))
    /\ \A k \in 1..Len(CallsOf("createTag")) : ArgsOf("createTag")[k] \notin tags0

\* the run after a failed createTag creates the one tag still missing
C13_Witness ==
    /\ run > 1
    /\ prevTagFailed
    /\ Succeeded /\ ~dry_run
    /\ Len(changes) = 2
    /\ VersionTag(changes[1]) \in tags0
    /\ VersionTag(changes[2]) \notin tags0
    /\ ArgsOf("createTag") = <<VersionTag(changes[2])>>

\* C14: when loadChart raises for a changed manifest the run is over and
\* failed, changes was never assigned, and no oracle query, tag creation or
\* cr command was made; when getChangedCharts returns, every changed
\* manifest was loaded and has its record.
C14_ManifestErrorFatal ==
    /\ failedAt = "loadChart" =>
         /\ pc = "done" /\ failed
         /\ changes = <<>>
         /\ \A k \in 1..Len(log) : Rank(log[k].op) = 0
    /\ pc = "getNeededTags" =>
         LET ms == changedManifests(changed, chart_dir)
         IN  /\ \A k \in 1..Len(ms) : ~loadChartFails(fs, work_dir, ms[k])
             /\ Len(changes) = Len(ms)

\* a good manifest and a malformed one changed, with a workspace configured
C14_Witness ==
    /\ failedAt = "loadChart"
    /\ work_dir
    /\ changed = <<PathA, PathB>>
    /\ fs[PathA].ok /\ ~fs[PathB].ok

\* C15: when a git.hasTag call raises, the run is over and failed,
\* neededTags was never assigned, and no release query, tag creation or cr
\* command was made.
C15_TagOracleErrorFatal ==
    (\E k \in 1..Len(tagAns) : tagAns[k] = "throw") =>
        /\ pc = "done" /\ failed /\ failedAt = "hasTag"
        /\ neededTags = <<>>
        /\ relAns = <<>>
        /\ ~Has("releaseExists")
        /\ NoMutatingCall

\* the second tag query raised after the first found no tag
C15_Witness ==
    /\ failedAt = "hasTag"
    /\ tagAns = <<"no", "throw">>
    /\ Len(CallsOf("hasTag")) = 2

Range(seq) == {seq[k] : k \in 1..Len(seq)}

\* the record is in changes and not in the reconciler's result
Excluded(r, result) == r \in Range(changes) /\ r \notin Range(result)

\* r2 is excluded from neither result on account of the tag or release of r1:
\* without the tag (release) of r1, r2 would be excluded all the same
NotOnAccountOf(r1, r2) ==
    /\ Excluded(r2, neededTags) => VersionTag(r2) \in tags0 \ {VersionTag(r1)}
    /\ Excluded(r2, neededBuilds) => VersionTag(r2) \in releases0 \ {VersionTag(r1)}

\* C16 as stated: for any two records of the workspace that differ in
\* package or version, neither is excluded from neededTags or neededBuilds
\* on account of the tag or release of the other.
C16_NotConflated ==
    Reconciled =>
        \A r1 \in RecordsOf(fs), r2 \in RecordsOf(fs) :
            r1 # r2 => NotOnAccountOf(r1, r2)

\* C16: for any two records of the workspace whose VersionTags differ,
\* neither is excluded from neededTags or neededBuilds on account of the
\* tag or release of the other.
C16_NotConflatedWhenTagsDiffer ==
    Reconciled =>
        \A r1 \in RecordsOf(fs), r2 \in RecordsOf(fs) :
            VersionTag(r1) # VersionTag(r2) => NotOnAccountOf(r1, r2)

\* two versions of one chart: the tagged and released one is skipped by
\* both reconcilers, the other is kept by both
C16_Witness ==
    /\ Reconciled
    /\ Len(changes) = 2
    /\ changes[1].chart = changes[2].chart
    /\ changes[1].version # changes[2].version
    /\ VersionTag(changes[1]) \in tags0 \cap releases0
    /\ neededTags = <<changes[2]>>
    /\ neededBuilds = <<changes[2]>>

\* the records of changes at the positions of S, in the order of changes
SubseqAt(S) ==
    [j \in 1..Cardinality(S) |->
        changes[CHOOSE k \in S : Cardinality({m \in S : m <= k}) = j]]

\* C17: when both reconcilers have returned, each oracle was queried once
\* per record in the order of changes, neededTags is the subsequence of
\* changes at the positions where the tag oracle answered no, neededBuilds
\* the subsequence at the positions where the release query found no
\* release, duplicates kept; right after the reconcilers the tags and the
\* releases are those of the start of the run.
C17_PureFilters ==
    Reconciled =>
        /\ ArgsOf("hasTag") = TagsOfSeq(changes)
        /\ ArgsOf("releaseExists") = TagsOfSeq(changes)
        /\ Len(tagAns) = Len(changes)
        /\ Len(relAns) = Len(changes)
        /\ neededTags = SubseqAt({k \in 1..Len(changes) : tagAns[k] = "no"})
        /\ neededBuilds = SubseqAt({k \in 1..Len(changes) : relAns[k] # "found"})
        /\ pc = "tags" => (tags = tags0 /\ releases = releases0)

\* the same record twice in changes, kept twice by both reconcilers
C17_Witness ==
    /\ pc = "tags"
    /\ Len(changes) = 2
    /\ changes[1] = changes[2]
    /\ neededTags = changes
    /\ neededBuilds = changes

\* C18 as stated: when a run that is not dry ends successfully, after
\* whatever the earlier runs did, every record of changes has its tag, its
\* release and its entry in the index.
C18_Convergence ==
    (Succeeded /\ ~dry_run) =>
        \A k \in 1..Len(changes) :
            /\ VersionTag(changes[k]) \in tags
            /\ VersionTag(changes[k]) \in releases
            /\ VersionTag(changes[k]) \in index

\* C19 as stated: git.createTag is never called for a tag that existed at
\* the start of the run or that an earlier call of the run created.
C19_NoRedundantTagCreation ==
    \A k \in 1..Len(CallsOf("createTag")) :
        /\ ArgsOf("createTag")[k] \notin tags0
        /\ \A j \in 1..(k - 1) : ArgsOf("createTag")[j] # ArgsOf("createTag")[k]

====
